---- MODULE Spec2Model ----
(***************************************************************************)
(* CartoonAI: the Home page's image generation with retry/backoff          *)
(* (generateImage, saveImage), the images table with its row-level         *)
(* security policies, the Profile gallery load and the sign-in / sign-out  *)
(* handlers.  Handlers are modelled one action per synchronous block       *)
(* between two awaits; React closures keep the `user` and `prompt` of the  *)
(* render in which the handler was created.                                *)
(***************************************************************************)
EXTENDS Integers, Sequences, FiniteSets, TLC

VARIABLES
    route,           \* the page the router renders: "/" Home, "/profile" Profile
    user,            \* useAuth().user: the signed-in identity or NoUser
    hf,              \* module-level HfInference client is initialised
    prompt,          \* Home: useState('') prompt
    loading,         \* Home: useState(false) loading
    generatedImage,  \* Home: useState(null) generatedImage
    calls,           \* generateImage call sequences in flight, by slot
    images,          \* rows of the images table
    clock,           \* store clock behind created_at DEFAULT now()
    inserts,         \* rows inserted in this run
    pImages,         \* Profile: useState([]) images
    pLoading,        \* Profile: useState(true) loading
    loads,           \* Profile.loadImages queries in flight, by slot
    toasts,          \* notifications emitted by the last step
    done,            \* the call sequence that ended in the last step
    listed,          \* the select answered in the last step
    invoked          \* the generateImage() invocation made in the last step

vars == <<route, user, hf, prompt, loading, generatedImage, calls, images, clock, inserts,
          pImages, pLoading, loads, toasts, done, listed, invoked>>

-----------------------------------------------------------------------------
(* Bounds of the model *)

MaxLoads == 2
MaxInserts == 2
MaxSeed == 3

(* Program constants *)

MAX_RETRIES == 3
RETRY_DELAY == 2000
MsPerSecond == 1000

-----------------------------------------------------------------------------
(* Values *)

None == "none"
HomePage == "/"
ProfilePage == "/profile"
NoUser == "nouser"
Users == {"u1", "u2"}

Space == " "
Prompts == { <<>>, <<Space>>, <<Space, "a">> }

StyleSuffix == <<",", "cartoon style">>

Blobs == {"png1"}

Calls == DOMAIN calls
Loads == 1..MaxLoads

-----------------------------------------------------------------------------
(* String helpers *)

RECURSIVE TrimStart(_)
TrimStart(s) ==
    IF s = <<>> THEN <<>>
    ELSE IF Head(s) = Space THEN TrimStart(Tail(s)) ELSE s

RECURSIVE TrimEnd(_)
TrimEnd(s) ==
    IF s = <<>> THEN <<>>
    ELSE IF s[Len(s)] = Space THEN TrimEnd(SubSeq(s, 1, Len(s) - 1)) ELSE s

\* Variant: the prompt is tested without trimming.
NoTrim(s) == s

Trim(s) == TrimEnd(TrimStart(s))

EnhancedPrompt(p) == p \o StyleSuffix

Digits == {"0", "1", "2", "3", "4", "5", "6", "7", "8", "9"}

DigitVal(d) ==
    CASE d = "0" -> 0 [] d = "1" -> 1 [] d = "2" -> 2 [] d = "3" -> 3
      [] d = "4" -> 4 [] d = "5" -> 5 [] d = "6" -> 6 [] d = "7" -> 7
      [] d = "8" -> 8 [] d = "9" -> 9

NaN == -1

RECURSIVE ParseDigits(_, _)
ParseDigits(s, acc) ==
    IF s = <<>> \/ Head(s) \notin Digits THEN acc
    ELSE ParseDigits(Tail(s), 10 * acc + DigitVal(Head(s)))

ParseInt(s) ==
    LET t == TrimStart(s)
    IN  IF t = <<>> \/ Head(t) \notin Digits THEN NaN ELSE ParseDigits(t, 0)

-----------------------------------------------------------------------------
(* Upstream responses *)

CudaWarning == "CUDA out of memory"
NoHeader == <<>>
RetryAfterHeaders == { NoHeader, <<"1">> }

JsonBody(ws) == [json |-> TRUE, error |-> TRUE, warnings |-> ws]
TextBody == [json |-> FALSE, error |-> FALSE, warnings |-> {}]

OkResponses ==
    { [ok |-> TRUE, status |-> 200, retryAfter |-> NoHeader,
       body |-> TextBody, blob |-> b] : b \in Blobs }

ErrorResponses ==
    { [ok |-> FALSE, status |-> 429, retryAfter |-> h,
       body |-> JsonBody({}), blob |-> None] : h \in RetryAfterHeaders }
    \cup
    { [ok |-> FALSE, status |-> 429, retryAfter |-> <<"1">>,
       body |-> JsonBody({CudaWarning}), blob |-> None],
      [ok |-> FALSE, status |-> 503, retryAfter |-> NoHeader,
       body |-> JsonBody({CudaWarning}), blob |-> None],
      [ok |-> FALSE, status |-> 500, retryAfter |-> NoHeader,
       body |-> TextBody, blob |-> None] }

Responses == OkResponses \cup ErrorResponses

NoResponse == [ok |-> FALSE, status |-> 0, retryAfter |-> NoHeader,
               body |-> TextBody, blob |-> None]
MixedResponses == [ok |-> FALSE, status |-> 0, retryAfter |-> NoHeader,
                   body |-> TextBody, blob |-> "mixed"]
AbortError == [ok |-> FALSE, status |-> 0, retryAfter |-> NoHeader,
               body |-> TextBody, blob |-> "AbortError"]
FailedToFetch == [ok |-> FALSE, status |-> 0, retryAfter |-> NoHeader,
                  body |-> TextBody, blob |-> "Failed to fetch"]

IsCudaOutOfMemory(r) ==
    r.body.json /\ r.body.error /\ CudaWarning \in r.body.warnings

\* Variant: the Retry-After header is not read.
RetryAfterIgnored(r) == ParseInt(<<"5">>) * MsPerSecond

RetryAfterMs(r) ==
    LET retryAfter ==
            ParseInt(IF r.retryAfter = NoHeader THEN <<"5">> ELSE r.retryAfter)
    IN  IF retryAfter = NaN THEN NaN ELSE retryAfter * MsPerSecond

NoImage == <<>>
DataUrl(b) == <<"data:", b>>

-----------------------------------------------------------------------------
(* Notifications *)

TSignInFirst == "Please sign in to generate images"
TSignInToSave == "Please sign in to save images"
TEnterPrompt == "Please enter a prompt"
TNotInitialized == "API client is not properly initialized"
TRequestFailed == "API request failed"
TAborted == "The operation was aborted"
TFailedToFetch == "Failed to fetch"
TSaveFailed == "Failed to save image"
TSaved == "Image saved to your gallery!"
TGenerated == "Image generated successfully!"
TSignedIn == "Successfully signed in!"
TAccountCreated == "Account created successfully!"
TAuthFailed == "Authentication failed"
TSignedOut == "Signed out successfully"
TSignOutFailed == "Failed to sign out"

-----------------------------------------------------------------------------
(* Call slots *)

\* only / onlyWait: the response every attempt of the sequence has received
\* so far and the delay every wait has lasted (Mixed when they differ);
\* waits counts the delays that have elapsed.
NoWait == -1
MixedWaits == -2

IdleCall == [pc |-> "idle", retryCount |-> 0, user |-> NoUser,
             prompt |-> <<>>, sent |-> <<>>, wait |-> 0, only |-> NoResponse,
             onlyWait |-> NoWait, waits |-> 0, blob |-> None, token |-> NoUser]

Same(seen, x, none, mixed) == IF seen = none \/ seen = x THEN x ELSE mixed

IdleLoad == [pc |-> "idle", user |-> NoUser, token |-> NoUser]

FreeCalls == { c \in Calls : calls[c].pc = "idle" }
FreeCall == CHOOSE c \in FreeCalls : \A d \in FreeCalls : c <= d

FreeLoads == { l \in Loads : loads[l].pc = "idle" }

NoDone == [outcome |-> None, message |-> None, user |-> NoUser,
           prompt |-> <<>>, token |-> NoUser, retryCount |-> 0,
           only |-> NoResponse, last |-> NoResponse, onlyWait |-> NoWait,
           waits |-> 0, created |-> 0]

Finished(call, outcome, message, last, created) ==
    [outcome |-> outcome, message |-> message, user |-> call.user,
     prompt |-> call.prompt, token |-> call.token,
     retryCount |-> call.retryCount, only |-> call.only, last |-> last,
     onlyWait |-> call.onlyWait, waits |-> call.waits, created |-> created]

NoInvoke == [user |-> NoUser, prompt |-> <<None>>]

NoList == [outcome |-> None, uid |-> NoUser, data |-> <<>>]

\* Tables left by earlier runs: n rows created at times 1..n.
Row(n, u, url, p) ==
    [id |-> n, user_id |-> u, image_url |-> url, prompt |-> p, created_at |-> n]

SeedRows(n) ==
    { Row(n, u, DataUrl(b), p) :
        u \in Users, b \in Blobs, p \in { q \in Prompts : Trim(q) # <<>> } }

RECURSIVE Tables(_)
Tables(n) ==
    IF n = 0 THEN {{}}
    ELSE { t \cup {r} : t \in Tables(n - 1), r \in SeedRows(n) }

SeedTables == UNION { Tables(n) : n \in 0..MaxSeed }

\* Profile's effect: loadImages() run for the render with user u.
ProfileEffect(rt, u, ls, pl) ==
    IF rt # ProfilePage
    THEN [loads |-> ls, pLoading |-> pl]
    ELSE IF u = NoUser
    THEN [loads |-> ls, pLoading |-> FALSE]
    ELSE LET free == { l \in Loads : ls[l].pc = "idle" }
             l == CHOOSE l \in free : \A m \in free : l <= m
         IN  [loads |-> [ls EXCEPT ![l] = [pc |-> "querying", user |-> u,
                                           token |-> u]],
              pLoading |-> pl]

Init ==
    /\ route \in {HomePage, ProfilePage}
    /\ user \in {NoUser} \cup Users
    /\ hf \in BOOLEAN
    /\ prompt = <<>>
    /\ loading = FALSE
    /\ generatedImage = NoImage
    /\ calls = [c \in {1} |-> IdleCall]
    /\ images \in (IF route = HomePage THEN {{}} ELSE SeedTables)
    /\ clock = Cardinality(images)
    /\ inserts = 0
    /\ pImages = <<>>
    /\ LET e == ProfileEffect(route, user, [l \in Loads |-> IdleLoad], TRUE)
       IN  loads = e.loads /\ pLoading = e.pLoading
    /\ toasts = <<>>
    /\ done = NoDone
    /\ listed = NoList
    /\ invoked = NoInvoke

-----------------------------------------------------------------------------
(* Home.generateImage *)

\* Variant: the client initialisation is not tested.
GenerateEntryNoClientCheck(call, u, p, rc, ld) ==
    IF u = NoUser
    THEN [call |-> IdleCall, loading |-> ld, toasts |-> <<TSignInFirst>>]
    ELSE IF Trim(p) = <<>>
    THEN [call |-> IdleCall, loading |-> ld, toasts |-> <<TEnterPrompt>>]
    ELSE [call |-> [call EXCEPT !.pc = "fetching", !.retryCount = rc,
                                !.user = u, !.prompt = p,
                                !.sent = EnhancedPrompt(p)],
          loading |-> TRUE, toasts |-> <<>>]

\* generateImage from its entry to the first await (the fetch), run with the
\* user and prompt of the closure it was created in.
GenerateEntry(call, u, p, rc, ld) ==
    IF u = NoUser
    THEN [call |-> IdleCall, loading |-> ld, toasts |-> <<TSignInFirst>>]
    ELSE IF Trim(p) = <<>>
    THEN [call |-> IdleCall, loading |-> ld, toasts |-> <<TEnterPrompt>>]
    ELSE IF ~hf
    THEN [call |-> IdleCall, loading |-> ld, toasts |-> <<TNotInitialized>>]
    ELSE [call |-> [call EXCEPT !.pc = "fetching", !.retryCount = rc,
                                !.user = u, !.prompt = p,
                                !.sent = EnhancedPrompt(p)],
          loading |-> TRUE, toasts |-> <<>>]

\* A top-level invocation generateImage() from the current render.
Invoke ==
    /\ route = HomePage
    /\ FreeCalls # {}
    /\ LET e == GenerateEntry(IdleCall, user, prompt, 0, loading)
       IN  /\ calls' = [calls EXCEPT ![FreeCall] = e.call]
           /\ loading' = e.loading
           /\ toasts' = e.toasts
    /\ done' = NoDone
    /\ listed' = NoList
    /\ invoked' = [user |-> user, prompt |-> prompt]
    /\ UNCHANGED <<route, user, hf, prompt, generatedImage, images, clock, inserts,
                   pImages, pLoading, loads>>

\* The Generate button: disabled={loading || !user}.
ClickGenerate ==
    /\ ~(loading \/ user = NoUser)
    /\ Invoke

\* Enter in the prompt input.
handleKeyPress ==
    /\ ~loading /\ user # NoUser
    /\ Invoke

\* onChange of the prompt input.
setPrompt(p) ==
    /\ route = HomePage
    /\ prompt' = p
    /\ toasts' = <<>>
    /\ done' = NoDone
    /\ listed' = NoList
    /\ invoked' = NoInvoke
    /\ UNCHANGED <<route, user, hf, loading, generatedImage, calls, images, clock, inserts,
                   pImages, pLoading, loads>>

\* `await delay(ms); return generateImage(retryCount + 1)`; done records the
\* response that is being retried.
Retry(call, r, ms) ==
    [call |-> [call EXCEPT !.pc = "delay", !.wait = ms,
                           !.only = Same(call.only, r, NoResponse,
                                         MixedResponses)],
     ended |-> FALSE, toasts |-> <<>>,
     done |-> Finished(call, "retry", None, r, 0)]

\* The end of the catch block: toast.error(errorMessage), then finally.
Surface(call, r, message) ==
    [call |-> IdleCall, ended |-> TRUE, toasts |-> <<message>>,
     done |-> Finished(call, "failed", message, r, 0)]

\* Variant: the catch block compares with <= instead of <.
CatchOffByOne(call, r, name, message) ==
    IF (name = "AbortError" \/ message = TFailedToFetch)
       /\ call.retryCount <= MAX_RETRIES
    THEN Retry(call, r, RETRY_DELAY)
    ELSE Surface(call, r, message)

\* Variant: an aborted fetch is not retried.
CatchNoAbortRetry(call, r, name, message) ==
    IF message = TFailedToFetch /\ call.retryCount < MAX_RETRIES
    THEN Retry(call, r, RETRY_DELAY)
    ELSE Surface(call, r, message)

\* catch (error): network errors and aborts are retried.
Catch(call, r, name, message) ==
    IF (name = "AbortError" \/ message = TFailedToFetch)
       /\ call.retryCount < MAX_RETRIES
    THEN Retry(call, r, RETRY_DELAY)
    ELSE Surface(call, r, message)

\* Variant: every non-success response is retried.
NotOkRetriesAll(call, r) ==
    IF call.retryCount < MAX_RETRIES
    THEN Retry(call, r, IF r.status = 429 /\ ~IsCudaOutOfMemory(r)
                        THEN RetryAfterMs(r) ELSE RETRY_DELAY)
    ELSE Catch(call, r, "Error", TRequestFailed)

\* Variant: the rate limit branch compares with <= instead of <.
NotOkOffByOne(call, r) ==
    IF IsCudaOutOfMemory(r) /\ call.retryCount < MAX_RETRIES
    THEN Retry(call, r, RETRY_DELAY)
    ELSE IF r.status = 429 /\ call.retryCount <= MAX_RETRIES
    THEN Retry(call, r, RetryAfterMs(r))
    ELSE Catch(call, r, "Error", TRequestFailed)

\* if (!response.ok) { ... }
NotOk(call, r) ==
    IF IsCudaOutOfMemory(r) /\ call.retryCount < MAX_RETRIES
    THEN Retry(call, r, RETRY_DELAY)
    ELSE IF r.status = 429 /\ call.retryCount < MAX_RETRIES
    THEN Retry(call, r, RetryAfterMs(r))
    ELSE Catch(call, r, "Error", TRequestFailed)

\* readAsDataURL(blob) started; the function returns through finally.
Decode(call, r) ==
    [call |-> [call EXCEPT !.pc = "reading", !.blob = r.blob],
     ended |-> TRUE, toasts |-> <<>>, done |-> NoDone]

\* Variant: no finally block.
SettleNoFinally(c, res) ==
    /\ calls' = [calls EXCEPT ![c] = res.call]
    /\ loading' = loading
    /\ toasts' = res.toasts
    /\ done' = res.done
    /\ listed' = NoList
    /\ invoked' = NoInvoke
    /\ UNCHANGED <<route, user, hf, prompt, generatedImage, images, clock,
                   inserts, pImages, pLoading, loads>>

Settle(c, res) ==
    /\ calls' = [calls EXCEPT ![c] = res.call]
    /\ loading' = IF res.ended THEN FALSE ELSE loading
    /\ toasts' = res.toasts
    /\ done' = res.done
    /\ listed' = NoList
    /\ invoked' = NoInvoke
    /\ UNCHANGED <<route, user, hf, prompt, generatedImage, images, clock, inserts,
                   pImages, pLoading, loads>>

\* The fetch resolves with a response.
FetchResponds(c, r) ==
    /\ calls[c].pc = "fetching"
    /\ Settle(c, IF r.ok THEN Decode(calls[c], r) ELSE NotOk(calls[c], r))

\* The 30 second timer fires: controller.abort() rejects the fetch.
FetchAborts(c) ==
    /\ calls[c].pc = "fetching"
    /\ Settle(c, Catch(calls[c], AbortError, "AbortError", TAborted))

\* The fetch rejects with a network error.
FetchFails(c) ==
    /\ calls[c].pc = "fetching"
    /\ Settle(c, Catch(calls[c], FailedToFetch, "TypeError", TFailedToFetch))

\* The delay elapses: the retry runs to its fetch, then the waiting call
\* returns it through its finally block.
DelayElapses(c) ==
    /\ calls[c].pc = "delay"
    /\ LET call == calls[c]
           e == GenerateEntry([call EXCEPT !.waits = call.waits + 1,
                                           !.onlyWait = Same(call.onlyWait,
                                                             call.wait, NoWait,
                                                             MixedWaits),
                                           !.wait = 0],
                              call.user, call.prompt, call.retryCount + 1,
                              loading)
       IN  /\ calls' = [calls EXCEPT ![c] = e.call]
           /\ toasts' = e.toasts
    /\ loading' = FALSE
    /\ done' = NoDone
    /\ listed' = NoList
    /\ invoked' = NoInvoke
    /\ UNCHANGED <<route, user, hf, prompt, generatedImage, images, clock, inserts,
                   pImages, pLoading, loads>>

-----------------------------------------------------------------------------
(* FileReader callbacks and Home.saveImage *)

\* reader.onerror: the read failed; the handler's throw is uncaught and the
\* reader's result is null when loadend follows.
onerror(c) ==
    /\ calls[c].pc = "reading"
    /\ calls' = [calls EXCEPT ![c].pc = "errored", ![c].blob = None]
    /\ toasts' = <<>>
    /\ done' = NoDone
    /\ listed' = NoList
    /\ invoked' = NoInvoke
    /\ UNCHANGED <<route, user, hf, prompt, loading, generatedImage, images, clock, inserts,
                   pImages, pLoading, loads>>

\* Variant: the reader's result is dropped.
ReaderResultNone(call) == NoImage

ReaderResult(call) == IF call.blob = None THEN NoImage ELSE DataUrl(call.blob)

\* reader.onloadend up to the await inside saveImage.
onloadend(c) ==
    /\ calls[c].pc \in {"reading", "errored"}
    /\ generatedImage' = ReaderResult(calls[c])
    /\ IF calls[c].user = NoUser
       THEN /\ calls' = [calls EXCEPT ![c] = IdleCall]
            /\ toasts' = <<TSignInToSave, TGenerated>>
            /\ done' = Finished(calls[c], "unsaved", TSignInToSave, NoResponse, 0)
       ELSE /\ calls' = [calls EXCEPT ![c].pc = "saving", ![c].token = user]
            /\ toasts' = <<>>
            /\ done' = NoDone
    /\ listed' = NoList
    /\ invoked' = NoInvoke
    /\ UNCHANGED <<route, user, hf, prompt, loading, images, clock, inserts,
                   pImages, pLoading, loads>>

-----------------------------------------------------------------------------
(* The images table *)

\* Variant: the submitted (decorated) prompt is stored.
InsertRowDecorated(call) ==
    [user_id |-> call.user, image_url |-> ReaderResult(call),
     prompt |-> call.sent]

\* The row saveImage sends.
InsertRow(call) ==
    [user_id |-> call.user, image_url |-> ReaderResult(call),
     prompt |-> call.prompt]

\* CREATE TABLE images: the NOT NULL columns.
NotNull(row) ==
    row.user_id # NoUser /\ row.image_url # NoImage

\* Variant: the insert policy has no WITH CHECK.
InsertPolicyNoCheck(uid, row) == uid # NoUser

\* POLICY "Users can insert their own images": TO authenticated
\* WITH CHECK (auth.uid() = user_id).
InsertPolicy(uid, row) == uid # NoUser /\ uid = row.user_id

\* POLICY "Users can read their own images": TO authenticated
\* USING (auth.uid() = user_id).
SelectPolicy(uid, row) == uid # NoUser /\ uid = row.user_id

\* The store answers saveImage's insert; fault is a store or network error.
insertResponds(c, fault) ==
    /\ calls[c].pc = "saving"
    /\ inserts >= MaxInserts => fault
    /\ LET call == calls[c]
           row == InsertRow(call)
       IN  IF ~fault /\ NotNull(row) /\ InsertPolicy(call.token, row)
           THEN /\ images' = images \cup
                        { Row(clock + 1, row.user_id, row.image_url,
                              row.prompt) }
                /\ clock' = clock + 1
                /\ inserts' = inserts + 1
                /\ toasts' = <<TSaved, TGenerated>>
                /\ done' = Finished(call, "saved", TSaved, NoResponse, 1)
           ELSE /\ UNCHANGED <<images, clock, inserts, inserts>>
                /\ toasts' = <<TSaveFailed, TGenerated>>
                /\ done' = Finished(call, "saveFailed", TSaveFailed, NoResponse, 0)
    /\ calls' = [calls EXCEPT ![c] = IdleCall]
    /\ listed' = NoList
    /\ invoked' = NoInvoke
    /\ UNCHANGED <<route, user, hf, prompt, loading, generatedImage,
                   pImages, pLoading, loads>>

RECURSIVE OrderDesc(_)
OrderDesc(rows) ==
    IF rows = {} THEN <<>>
    ELSE LET newest == CHOOSE r \in rows :
                           \A q \in rows : q.created_at <= r.created_at
         IN  <<newest>> \o OrderDesc(rows \ {newest})

RECURSIVE OrderAsc(_)
OrderAsc(rows) ==
    IF rows = {} THEN <<>>
    ELSE LET oldest == CHOOSE r \in rows :
                           \A q \in rows : r.created_at <= q.created_at
         IN  <<oldest>> \o OrderAsc(rows \ {oldest})

\* Variant: ascending order.
SelectImagesAscending(uid, id) ==
    OrderAsc({ r \in images : SelectPolicy(uid, r) /\ r.user_id = id })

\* .from('images').select('*').eq('user_id', id).order('created_at', desc)
\* executed for the caller uid.
SelectImages(uid, id) ==
    OrderDesc({ r \in images : SelectPolicy(uid, r) /\ r.user_id = id })

-----------------------------------------------------------------------------
(* Profile.loadImages *)

\* The store answers loadImages' select.
loadResponds(l, fault) ==
    /\ loads[l].pc = "querying"
    /\ IF fault
       THEN /\ UNCHANGED <<pImages, pLoading>>
            /\ listed' = [outcome |-> "error", uid |-> loads[l].token,
                          data |-> <<>>]
       ELSE LET data == SelectImages(loads[l].token, loads[l].user)
            IN  /\ pImages' = data
                /\ pLoading' = FALSE
                /\ listed' = [outcome |-> "data", uid |-> loads[l].token,
                              data |-> data]
    /\ loads' = [loads EXCEPT ![l] = IdleLoad]
    /\ toasts' = <<>>
    /\ done' = NoDone
    /\ invoked' = NoInvoke
    /\ UNCHANGED <<route, user, hf, prompt, loading, generatedImage, calls,
                   images, clock, inserts>>

-----------------------------------------------------------------------------
(* Session *)

\* AuthModal.handleSubmit: signIn or signUp as u; the modal is opened from
\* the navbar's Sign In button, shown while no user is signed in.
handleSubmit(u, isLogin, ok) ==
    /\ user = NoUser
    /\ IF ok
       THEN /\ route = ProfilePage => FreeLoads # {}
            /\ user' = u
            /\ toasts' = <<IF isLogin THEN TSignedIn ELSE TAccountCreated>>
            /\ LET e == ProfileEffect(route, u, loads, pLoading)
               IN  loads' = e.loads /\ pLoading' = e.pLoading
       ELSE /\ toasts' = <<TAuthFailed>>
            /\ UNCHANGED <<route, user, loads, pLoading>>
    /\ done' = NoDone
    /\ listed' = NoList
    /\ invoked' = NoInvoke
    /\ UNCHANGED <<route, hf, prompt, loading, generatedImage, calls, images,
                   clock, inserts, pImages>>

\* Navbar.handleSignOut.
handleSignOut(ok) ==
    /\ user # NoUser
    /\ IF ok
       THEN /\ user' = NoUser
            /\ toasts' = <<TSignedOut>>
            /\ LET e == ProfileEffect(route, NoUser, loads, pLoading)
               IN  loads' = e.loads /\ pLoading' = e.pLoading
       ELSE /\ toasts' = <<TSignOutFailed>>
            /\ UNCHANGED <<route, user, loads, pLoading>>
    /\ done' = NoDone
    /\ listed' = NoList
    /\ invoked' = NoInvoke
    /\ UNCHANGED <<route, hf, prompt, loading, generatedImage, calls, images,
                   clock, inserts, pImages>>

-----------------------------------------------------------------------------

Next ==
    \/ ClickGenerate
    \/ handleKeyPress
    \/ \E p \in Prompts : setPrompt(p)
    \/ \E c \in Calls : \E r \in Responses : FetchResponds(c, r)
    \/ \E c \in Calls : FetchAborts(c)
    \/ \E c \in Calls : FetchFails(c)
    \/ \E c \in Calls : DelayElapses(c)
    \/ \E c \in Calls : onerror(c)
    \/ \E c \in Calls : onloadend(c)
    \/ \E c \in Calls : \E fault \in BOOLEAN : insertResponds(c, fault)
    \/ \E l \in Loads : \E fault \in BOOLEAN : loadResponds(l, fault)
    \/ \E u \in Users : \E isLogin, ok \in BOOLEAN : handleSubmit(u, isLogin, ok)
    \/ \E ok \in BOOLEAN : handleSignOut(ok)

Spec == Init /\ [][Next]_vars

\* The settled fetch and the elapsed delay are guaranteed by the 30 second
\* abort timer and by setTimeout; the FileReader and the store answer.
Progress ==
    \/ \E c \in Calls : \E r \in Responses : FetchResponds(c, r)
    \/ \E c \in Calls : FetchAborts(c)
    \/ \E c \in Calls : FetchFails(c)
    \/ \E c \in Calls : DelayElapses(c)
    \/ \E c \in Calls : onloadend(c)
    \/ \E c \in Calls : \E fault \in BOOLEAN : insertResponds(c, fault)

FairSpec == Spec /\ WF_vars(Progress)

-----------------------------------------------------------------------------
(* Properties *)

\* A generation request is in flight: between the first attempt and the
\* terminal success or failure of the call sequence.
InFlight(c) == calls[c].pc \in {"fetching", "delay"}

\* The sequence that ended in the last step ended after a successful
\* upstream response.
Generated == done.outcome \in {"saved", "saveFailed", "unsaved"}

RateLimited(h) == [ok |-> FALSE, status |-> 429, retryAfter |-> h,
                   body |-> JsonBody({}), blob |-> None]

\* Every response of the ended sequence, the last one included, was r.
Always(r) == done.last = r /\ done.only \in {NoResponse, r}

\* C1: while a generation request is in flight (first attempt, backoff
\* waits and retried attempts included) the trigger is disabled: loading is
\* true.
C1_TriggerDisabledInFlight == \A c \in Calls : InFlight(c) => loading

\* C2: a row is only ever created for an authenticated caller, and its
\* user_id is the identity the insert was executed as.
C2_RowOwnerIsInserter ==
    /\ \A r \in images : r.user_id \in Users
    /\ done.outcome = "saved" =>
          /\ done.token \in Users
          /\ \E r \in images : r.id = clock /\ r.user_id = done.token

C2_Witness ==
    /\ done.outcome = "saved"
    /\ \E r \in images : r.id = clock /\ r.user_id = user

\* C3: while no user is signed in, generate and save have no side effects:
\* no call to the inference endpoint is issued, no insert is issued and the
\* displayed image does not change.
C3_NoSessionNoEffects ==
    [][user = NoUser =>
          /\ \A c \in Calls :
                /\ calls'[c].pc = "fetching" => calls[c].pc = "fetching"
                /\ calls'[c].pc = "saving" => calls[c].pc = "saving"
          /\ generatedImage' = generatedImage]_vars

\* C4: generateImage invoked by a signed-in user with an empty or
\* whitespace-only prompt answers "Please enter a prompt", issues no call
\* and leaves loading as it was.
C4_BlankPromptRefused ==
    [][(invoked' # NoInvoke /\ invoked'.user # NoUser
          /\ \A i \in 1..Len(invoked'.prompt) : invoked'.prompt[i] = Space)
       => /\ toasts' = <<TEnterPrompt>>
          /\ calls' = calls
          /\ loading' = loading]_vars

C4_Witness ==
    /\ invoked.user \in Users
    /\ invoked.prompt = <<Space>>
    /\ toasts = <<TEnterPrompt>>

C7_TimeoutFourAttempts ==
    /\ \A c \in Calls :
          (calls[c].only = AbortError /\ calls[c].pc = "delay")
             => calls[c].wait = 2000
    /\ (done.outcome = "failed" /\ Always(AbortError))
          => /\ done.retryCount = 3
             /\ done.waits = 3
             /\ done.onlyWait = 2000
             /\ done.message = TAborted

C7_Witness ==
    /\ done.outcome = "failed"
    /\ Always(AbortError)
    /\ done.retryCount = 3

\* C8 as stated: a sequence that ended after a successful generation, with
\* a user signed in, has created exactly one row.
C8_ExactlyOneRow ==
    (Generated /\ user # NoUser) => done.created = 1

\* C8 amended: a successful generation creates at most one row, and exactly
\* one when the store accepts the insert; the row is owned by the identity
\* the insert was executed as and carries the prompt as it was submitted,
\* without the style suffix.
C8_OneRowWhenAccepted ==
    [][/\ done'.outcome = "saved" =>
             \E r \in images' :
                /\ r \notin images
                /\ images' = images \cup {r}
                /\ r.user_id = done'.token
                /\ r.user_id = done'.user
                /\ r.prompt = done'.prompt
                /\ \E c \in Calls :
                      /\ calls[c].pc = "saving"
                      /\ calls'[c].pc = "idle"
                      /\ calls[c].sent = r.prompt \o StyleSuffix
       /\ done'.outcome # "saved" => images' = images]_vars

C8_Witness ==
    /\ done.outcome = "saved"
    /\ done.retryCount > 0
    /\ \E r \in images : r.id = clock /\ r.prompt = done.prompt

\* C9: whenever no generation request is in flight loading is false, and
\* loading never stays true for ever.
C9_LoadingReleased ==
    /\ []((\A c \in Calls : ~InFlight(c)) => ~loading)
    /\ (loading ~> ~loading)

C9_Witness ==
    /\ done.outcome = "failed"
    /\ done.retryCount = 3
    /\ ~loading

\* C10: a select answered with data returns only rows owned by the caller
\* it was executed for, all of them, newest first.
C10_OwnRowsNewestFirst ==
    listed.outcome = "data" =>
        /\ \A i \in 1..Len(listed.data) : listed.data[i].user_id = listed.uid
        /\ \A i, j \in 1..Len(listed.data) :
              i < j => listed.data[i].created_at > listed.data[j].created_at
        /\ \A r \in images :
              r.user_id = listed.uid
                 => \E i \in 1..Len(listed.data) : listed.data[i] = r

C10_Witness ==
    /\ listed.outcome = "data"
    /\ Len(listed.data) = 2
    /\ \E r \in images : r.user_id # listed.uid

Notified(message) == \E i \in 1..Len(toasts) : toasts[i] = message

\* A non-success response that is neither rate limited nor a resource
\* exhaustion warning.
Other(r) == ~r.ok /\ r.status \notin {0, 429} /\ ~IsCudaOutOfMemory(r)

Busy == \E c \in Calls : InFlight(c)

\* C11: a decoded image is displayed in the step that issues its insert;
\* one decoded response leads to one insert; the answer to the insert ends
\* the call without a new insert, a failed insert is reported and leaves
\* the displayed image and the table as they were.
C11_SaveFailureNotResubmitted ==
    [][\A c \in Calls :
          /\ (calls'[c].pc = "reading" /\ calls[c].pc # "reading")
                => calls[c].pc = "fetching"
          /\ (calls'[c].pc = "saving" /\ calls[c].pc # "saving")
                => /\ calls[c].pc \in {"reading", "errored"}
                   /\ calls[c].blob # None
                         => generatedImage' = DataUrl(calls[c].blob)
          /\ (calls[c].pc = "saving" /\ calls'[c] # calls[c])
                => /\ calls'[c].pc = "idle"
                   /\ done'.outcome \in {"saved", "saveFailed"}
                   /\ generatedImage' = generatedImage
                   /\ done'.outcome = "saveFailed"
                         => /\ images' = images
                            /\ \E i \in 1..Len(toasts') :
                                  toasts'[i] = TSaveFailed]_vars

C11_Witness ==
    /\ done.outcome = "saveFailed"
    /\ done.token = done.user
    /\ generatedImage \in { DataUrl(b) : b \in Blobs }

\* C12: every failing outcome (of a generation, of a save, of the gallery
\* load) is shown to the user as a notification.
C12_EveryFailureNotified ==
    /\ done.outcome \in {"failed", "saveFailed", "unsaved"}
          => Notified(done.message)
    /\ listed.outcome = "error" => toasts # <<>>

\* C13: without the inference client (no API key) no call to the inference
\* endpoint is ever issued, and a generation a signed-in user asks for with
\* a non-blank prompt is answered with a notification of its own, which is
\* none of the upstream failure messages.
C13_MissingKeyNoAttempt ==
    [][~hf =>
          /\ \A c \in Calls : calls'[c].pc = "idle"
          /\ (invoked' # NoInvoke /\ invoked'.user # NoUser
                /\ \E i \in 1..Len(invoked'.prompt) :
                      invoked'.prompt[i] # Space)
                => /\ toasts' = <<TNotInitialized>>
                   /\ TNotInitialized
                         \notin {TRequestFailed, TAborted, TFailedToFetch}]_vars

C13_Witness ==
    /\ ~hf
    /\ invoked.user \in Users
    /\ invoked.prompt = <<Space, "a">>
    /\ toasts = <<TNotInitialized>>

\* C14: a 429 response received with fewer than 3 retries made is retried,
\* and the wait before the retry is the Retry-After hint of that response
\* (5 seconds without a hint), also when the body carries the resource
\* exhaustion warning.
C14_RateLimitWaitIsHint ==
    (done.outcome # None /\ done.last.status = 429
       /\ done.retryCount < MAX_RETRIES)
       => /\ done.outcome = "retry"
          /\ \A c \in Calls :
                calls[c].pc = "delay"
                   => /\ calls[c].wait = RetryAfterMs(done.last)
                      /\ calls[c].retryCount = done.retryCount

\* C15: whatever mix of responses, aborts and network failures a call
\* sequence receives, it makes at most 3 retries (4 calls), one wait per
\* retry, and it ends.
C15_RetriesBoundedAndEnd ==
    /\ [](\A c \in Calls :
             InFlight(c) => /\ calls[c].retryCount <= MAX_RETRIES
                            /\ calls[c].waits <= calls[c].retryCount)
    /\ [](done.outcome \in {"retry", "failed"}
             => done.retryCount + 1 <= MAX_RETRIES + 1)
    /\ (Busy ~> ~Busy)

C15_Witness ==
    /\ done.outcome = "failed"
    /\ done.only = MixedResponses
    /\ done.retryCount = MAX_RETRIES

C17_FailureLeavesNoTrace ==
    [][/\ (Busy \/ done'.outcome = "failed")
             => /\ generatedImage' = generatedImage
                /\ images' = images
                /\ \A c \in Calls : calls'[c].pc # "saving"
       /\ \A c \in Calls :
             (calls'[c].pc = "saving" /\ calls[c].pc # "saving")
                => /\ calls[c].blob \in Blobs
                   /\ generatedImage' = DataUrl(calls[c].blob)]_vars

\* C18: the gallery grid shown to a signed-in user holds only rows owned by
\* that user.
C18_GalleryShowsOwnRows ==
    (route = ProfilePage /\ user # NoUser /\ ~pLoading)
       => \A i \in 1..Len(pImages) : pImages[i].user_id = user

\* C19: once the query of a gallery load for a signed-in user has been
\* answered, with data or with an error, the Profile loading flag is false.
C19_LoadLeavesLoading ==
    (listed.outcome # None /\ user # NoUser) => ~pLoading

====
